---- MODULE Spec2Model ----
(***************************************************************************)
(* Research Document Explorer (src/app.py): a Streamlit script that is     *)
(* re-executed top to bottom on every user interaction.  One execution of  *)
(* the script is one "pass".  Strings are modelled as sequences of         *)
(* one-character strings so that strip(), lower() and substring search are *)
(* computed, not assumed.                                                  *)
(***************************************************************************)
EXTENDS Integers, Sequences, FiniteSets, TLC

VARIABLES
    \* environment read by the script
    file_exists,        \* processed_ids_file.exists()
    file_lines,         \* raw lines of the identifier file
    company_lines,      \* raw lines of company_sample.txt
    collection,         \* documents stored in research_reports
    \* values computed by a pass
    object_ids,         \* result of load_object_ids()
    log_warnings,       \* doc_id of every logging.warning of the pass
    log_errors,         \* number of logging.error calls of the pass
    companies,          \* result of load_companies()
    documents,          \* list(collection.find(query))
    \* st.session_state and widget state kept between passes
    doc_index_set,      \* 'doc_index' in st.session_state
    doc_index,          \* st.session_state.doc_index
    selected_company,   \* value of the "Select Company" selectbox
    number_widget,      \* the "Go to #" number_input rendered by the last pass
    search_rendered,    \* the "Search metrics" text_input was rendered
    metric_search,      \* value of the "Search metrics" text_input
    \* what the pass rendered
    view,
    metrics,            \* current_doc["Key_Metrics"] handed to the filter
    filtered_metrics,
    \* the cursor at each step of the last pass
    trace,
    pc

vars == <<file_exists, file_lines, company_lines, collection, object_ids,
          log_warnings, log_errors, companies, documents, doc_index_set,
          doc_index, selected_company, number_widget, search_rendered,
          metric_search, view, metrics, filtered_metrics, trace, pc>>

----------------------------------------------------------------------------
(* Bounds of the model *)

MaxLines == 3        \* lines of the identifier file in SpecLoad
MaxDocs == 5         \* identifiers in the file / stored documents in Spec
MaxStored == 2       \* stored documents in SpecQuery
MaxKeyLen == 2       \* length of metric names and queries in SpecFilter

----------------------------------------------------------------------------
(* Strings: str.strip, str.lower, the `in` operator, sorted *)

Whitespace == {" ", "\t", "\n"}

UpperCase == <<"A","B","C","D","E","F","G","H","I","J","K","L","M",
               "N","O","P","Q","R","S","T","U","V","W","X","Y","Z">>
LowerCase == <<"a","b","c","d","e","f","g","h","i","j","k","l","m",
               "n","o","p","q","r","s","t","u","v","w","x","y","z">>
Digits == <<"0","1","2","3","4","5","6","7","8","9">>

\* The characters used, in code-point order.
CodePoints == <<"\t", "\n", " ", "-">> \o Digits \o UpperCase \o LowerCase

ord(c) == CHOOSE i \in 1..Len(CodePoints) : CodePoints[i] = c

lower_char(c) ==
    IF \E i \in 1..Len(UpperCase) : UpperCase[i] = c
    THEN LowerCase[CHOOSE i \in 1..Len(UpperCase) : UpperCase[i] = c]
    ELSE c

lower(s) == [i \in 1..Len(s) |-> lower_char(s[i])]

RECURSIVE lstrip(_)
lstrip(s) == IF s # <<>> /\ Head(s) \in Whitespace THEN lstrip(Tail(s)) ELSE s

RECURSIVE rstrip(_)
rstrip(s) ==
    IF s # <<>> /\ s[Len(s)] \in Whitespace
    THEN rstrip(SubSeq(s, 1, Len(s) - 1))
    ELSE s

strip(s) == rstrip(lstrip(s))

\* Python's `sub in s` on str
contains(sub, s) ==
    \E i \in 0..(Len(s) - Len(sub)) : SubSeq(s, i + 1, i + Len(sub)) = sub

\* Python's str ordering: lexicographic by code point
RECURSIVE str_less(_, _)
str_less(a, b) ==
    IF b = <<>> THEN FALSE
    ELSE IF a = <<>> THEN TRUE
    ELSE IF Head(a) = Head(b) THEN str_less(Tail(a), Tail(b))
    ELSE ord(Head(a)) < ord(Head(b))

RECURSIVE sorted(_)
sorted(S) ==
    IF S = {} THEN <<>>
    ELSE LET m == CHOOSE x \in S : \A y \in S \ {x} : str_less(x, y)
         IN <<m>> \o sorted(S \ {m})

AllCompanies == <<"A","l","l"," ","C","o","m","p","a","n","i","e","s">>

----------------------------------------------------------------------------
(* bson ObjectId(str): 24 hexadecimal characters, else InvalidId *)

OidHexLen == 24

HexChars == {"0","1","2","3","4","5","6","7","8","9",
             "a","b","c","d","e","f","A","B","C","D","E","F"}

\* ok = FALSE stands for the InvalidId exception; the value is the 12 bytes,
\* written as lower-case hexadecimal.
ObjectId(s) ==
    IF Len(s) = OidHexLen /\ \A i \in 1..Len(s) : s[i] \in HexChars
    THEN [ok |-> TRUE, value |-> lower(s)]
    ELSE [ok |-> FALSE, value |-> <<>>]

----------------------------------------------------------------------------
(* load_object_ids, src/app.py 31-48 *)

\* the body of `for line in f`, applied to one line
read_line_Mutant_NoStrip(acc, line) ==
    LET doc_id == line
    IN IF doc_id # <<>>
       THEN IF ObjectId(doc_id).ok
            THEN [acc EXCEPT !.object_ids = Append(@, ObjectId(doc_id).value)]
            ELSE [acc EXCEPT !.warnings = Append(@, doc_id)]
       ELSE acc

read_line(acc, line) ==
    LET doc_id == strip(line)
    IN IF doc_id # <<>>
       THEN IF ObjectId(doc_id).ok
            THEN [acc EXCEPT !.object_ids = Append(@, ObjectId(doc_id).value)]
            ELSE [acc EXCEPT !.warnings = Append(@, doc_id)]
       ELSE acc

RECURSIVE read_lines(_, _)
read_lines(acc, lines) ==
    IF lines = <<>> THEN acc
    ELSE read_lines(read_line(acc, Head(lines)), Tail(lines))

load_object_ids ==
    IF ~file_exists
    THEN [object_ids |-> <<>>, warnings |-> <<>>, errors |-> 1]
    ELSE read_lines([object_ids |-> <<>>, warnings |-> <<>>, errors |-> 0],
                    file_lines)

----------------------------------------------------------------------------
(* load_companies, src/app.py 51-58 *)

load_companies ==
    sorted({strip(company_lines[i]) : i \in 1..Len(company_lines)} \ {<<>>})

----------------------------------------------------------------------------
(* Stored documents.  A document is a record; has_company / has_metrics say  *)
(* whether the fields company_name / Key_Metrics exist in it.                *)

Acme == <<"A","c","m","e">>
acme == <<"a","c","m","e">>
Other == <<"O","t","h","e","r">>
Zed == <<"Z","e","d">>

Revenue == <<"R","e","v","e","n","u","e">>
EPS == <<"E","P","S">>
NetMargin == <<"N","e","t"," ","M","a","r","g","i","n">>

EmptyMetrics == [k \in {} |-> ""]

\* the n-th identifier, as stored (lower-case hexadecimal)
OidOf(n) ==
    [i \in 1..OidHexLen |->
        IF i = 1 THEN "a" ELSE IF i = OidHexLen THEN Digits[n + 1] ELSE "0"]

\* the line of the identifier file that names the n-th identifier; odd ones
\* are written in upper case with surrounding blanks
LineOf(n) ==
    IF n % 2 = 1
    THEN <<" ", "A">> \o SubSeq(OidOf(n), 2, OidHexLen) \o <<" ", "\n">>
    ELSE OidOf(n) \o <<"\n">>

NotAnId == <<"n","o","t","-","a","n","-","i","d","\n">>
ShortId == SubSeq(OidOf(1), 1, OidHexLen - 1) \o <<"\n">>
NonHexId == SubSeq(OidOf(1), 1, OidHexLen - 1) \o <<"g", "\n">>
BlankLine == <<"\n">>
SpaceLine == <<" ", "\t", "\n">>

MetricsOf(n) ==
    IF n % 4 = 2 THEN EmptyMetrics
    ELSE IF n % 4 = 0
    THEN [k \in {Revenue, EPS} |-> "v"]
    ELSE [k \in {Revenue, EPS, NetMargin} |-> "v"]

Doc(n) ==
    [id |-> OidOf(n),
     has_company |-> n % 5 # 0,
     company_name |-> IF n % 5 = 0 THEN <<>> ELSE IF n % 2 = 1 THEN Acme ELSE Other,
     has_metrics |-> n % 4 # 3,
     Key_Metrics |-> IF n % 4 = 3 THEN EmptyMetrics ELSE MetricsOf(n)]

Stored(n) == [i \in 1..n |-> Doc(i)]

\* an identifier file naming the first n identifiers, with a blank line and
\* an invalid line in between
FileOf(n) ==
    [i \in 1..(n + 2) |->
        IF i = 1 THEN BlankLine
        ELSE IF i = 2 THEN NotAnId
        ELSE LineOf(i - 2)]

CompanyFile ==
    <<<<" ">> \o Other \o <<"\n">>, Acme \o <<"\n">>, BlankLine,
      Acme \o <<" ", "\n">>, Zed \o <<"\n">>, acme \o <<"\n">>>>

----------------------------------------------------------------------------
(* Query construction and collection.find, src/app.py 67-78 *)

query(ids, company) ==
    IF company # AllCompanies
    THEN [ids |-> ids, has_company |-> TRUE, company_name |-> company]
    ELSE [ids |-> ids, has_company |-> FALSE, company_name |-> <<>>]

\* {"_id": {"$in": ids}, "Key_Metrics": {"$exists": True}[, "company_name": c]}
matches_Mutant_NoCompany(doc, q) ==
    /\ \E i \in 1..Len(q.ids) : q.ids[i] = doc.id
    /\ doc.has_metrics

matches(doc, q) ==
    /\ \E i \in 1..Len(q.ids) : q.ids[i] = doc.id
    /\ doc.has_metrics
    /\ q.has_company => (doc.has_company /\ doc.company_name = q.company_name)

find(coll, q) ==
    LET Test(doc) == matches(doc, q) IN SelectSeq(coll, Test)

----------------------------------------------------------------------------
(* Navigation cursor, src/app.py 86-116 *)

max(a, b) == IF a >= b THEN a ELSE b
min(a, b) == IF a <= b THEN a ELSE b

\* lines 91-92
reset_Mutant_Strict(index, total_docs) == IF index > total_docs THEN 0 ELSE index

reset_Mutant_Clamp(index, total_docs) ==
    IF index >= total_docs THEN total_docs - 1 ELSE index

reset_Mutant_Flipped(index, total_docs) == IF index <= total_docs THEN 0 ELSE index

reset(index, total_docs) == IF index >= total_docs THEN 0 ELSE index

\* line 99
previous_Mutant_NoClamp(index) == index - 1

previous(index) == max(0, index - 1)

\* line 103
next_Mutant_NoClamp(index, total_docs) == index + 1

next(index, total_docs) == min(total_docs - 1, index + 1)

\* lines 112-113
jump(index, new_index) == IF new_index # index THEN new_index ELSE index

NoWidget == [rendered |-> FALSE, max_value |-> 0, value |-> 0, state |-> 0]

\* st.number_input("Go to #", min_value, max_value, value).  The widget has no
\* key: it is the widget of the last pass only when its arguments are the
\* same, and then it returns the value the browser holds for it (the value
\* just typed when the pass was triggered by this widget); a widget with new
\* arguments returns `value`.  A `value` outside the range raises.
number_input(min_value, max_value, value, ev, arg) ==
    IF value < min_value \/ value > max_value
    THEN [raised |-> TRUE, value |-> value, widget |-> NoWidget]
    ELSE LET same == /\ number_widget.rendered
                     /\ number_widget.max_value = max_value
                     /\ number_widget.value = value
             state == IF same
                      THEN IF ev = "jump" THEN arg ELSE number_widget.state
                      ELSE value
         IN [raised |-> FALSE, value |-> state,
             widget |-> [rendered |-> TRUE, max_value |-> max_value,
                         value |-> value, state |-> state]]

----------------------------------------------------------------------------
(* Metrics filter, src/app.py 170-180 *)

filter_metrics_Mutant_CaseSensitive(m, search) ==
    IF search # <<>>
    THEN [k \in {k \in DOMAIN m : contains(search, k)} |-> m[k]]
    ELSE m

filter_metrics(m, search) ==
    IF search # <<>>
    THEN [k \in {k \in DOMAIN m : contains(lower(search), lower(k))} |-> m[k]]
    ELSE m

\* st.text_input("Search metrics", "")
text_input(ev, arg) ==
    IF ev = "search" THEN arg
    ELSE IF search_rendered THEN metric_search
    ELSE <<>>

\* st.selectbox("Select Company", ["All Companies"] + companies)
selectbox(ev, arg) ==
    IF ev = "company" THEN arg
    ELSE IF pc = "ran" THEN selected_company
    ELSE AllCompanies

----------------------------------------------------------------------------
(* One execution of the script, src/app.py 60-202.  ev is the widget that    *)
(* triggered the rerun ("load" for the first run) and arg its new value.     *)

NoView ==
    [warning |-> FALSE, found |-> 0, controls |-> FALSE, position |-> 0,
     of |-> 0, current |-> <<>>, shown |-> 0, total |-> 0, error |-> "none"]

\* lines 80-81: st.warning, nothing else
empty_view_Mutant_Silent == NoView

empty_view == [NoView EXCEPT !.warning = TRUE]

NoTrace ==
    [event |-> "none", held |-> 0, after_reset |-> -1, after_previous |-> -1,
     after_next |-> -1, returned |-> -1, selected |-> -1]

\* documents[i] of a Python list: negative i counts from the end
in_list(i, n) == -n <= i /\ i < n
item(list, i) == IF i < 0 THEN list[Len(list) + i + 1] ELSE list[i + 1]

Pass(ev, arg) ==
    /\ \E loaded \in {load_object_ids} :
          /\ object_ids' = loaded.object_ids
          /\ log_warnings' = loaded.warnings
          /\ log_errors' = loaded.errors
    /\ companies' = load_companies
    /\ selected_company' = selectbox(ev, arg)
    /\ documents' = find(collection, query(object_ids', selected_company'))
    /\ pc' = "ran"
    /\ UNCHANGED <<file_exists, file_lines, company_lines, collection>>
    /\ LET total_docs == Len(documents')
           held == IF doc_index_set THEN doc_index ELSE 0
           i_reset == reset(held, total_docs)
           i_prev == IF ev = "previous" THEN previous(i_reset) ELSE i_reset
           i_next == IF ev = "next" THEN next(i_prev, total_docs) ELSE i_prev
           ni == number_input(1, total_docs, i_next + 1, ev, arg)
           new_index == ni.value - 1
           i_jump == jump(i_next, new_index)
           current_doc == item(documents', i_jump)
           steps == [event |-> ev, held |-> held, after_reset |-> i_reset,
                     after_previous |-> i_prev, after_next |-> i_next,
                     returned |-> -1, selected |-> -1]
           shown == [NoView EXCEPT !.found = total_docs, !.controls = TRUE,
                                   !.position = i_next + 1, !.of = total_docs]
       IN IF documents' = <<>>
          THEN \* line 81: only the warning is rendered
               /\ view' = empty_view
               /\ trace' = [NoTrace EXCEPT !.event = ev, !.held = held]
               /\ number_widget' = NoWidget
               /\ search_rendered' = FALSE
               /\ metric_search' = <<>>
               /\ metrics' = EmptyMetrics
               /\ filtered_metrics' = EmptyMetrics
               /\ UNCHANGED <<doc_index_set, doc_index>>
          ELSE IF ni.raised
          THEN \* number_input rejects a value outside [min_value, max_value]
               /\ view' = [shown EXCEPT !.error = "StreamlitAPIException"]
               /\ trace' = steps
               /\ doc_index_set' = TRUE
               /\ doc_index' = i_next
               /\ number_widget' = NoWidget
               /\ search_rendered' = FALSE
               /\ metric_search' = <<>>
               /\ metrics' = EmptyMetrics
               /\ filtered_metrics' = EmptyMetrics
          ELSE IF ~in_list(i_jump, total_docs)
          THEN \* documents[doc_index] raises
               /\ view' = [shown EXCEPT !.error = "IndexError"]
               /\ trace' = [steps EXCEPT !.returned = ni.value]
               /\ doc_index_set' = TRUE
               /\ doc_index' = i_jump
               /\ number_widget' = ni.widget
               /\ search_rendered' = FALSE
               /\ metric_search' = <<>>
               /\ metrics' = EmptyMetrics
               /\ filtered_metrics' = EmptyMetrics
          ELSE /\ trace' = [steps EXCEPT !.returned = ni.value, !.selected = i_jump]
               /\ doc_index_set' = TRUE
               /\ doc_index' = i_jump
               /\ number_widget' = ni.widget
               /\ IF current_doc.has_metrics /\ DOMAIN current_doc.Key_Metrics # {}
                  THEN /\ search_rendered' = TRUE
                       /\ metric_search' = text_input(ev, arg)
                       /\ metrics' = current_doc.Key_Metrics
                       /\ filtered_metrics' = filter_metrics(metrics', metric_search')
                       /\ view' = [shown EXCEPT !.current = <<current_doc>>,
                                     !.shown = Cardinality(DOMAIN filtered_metrics'),
                                     !.total = Cardinality(DOMAIN metrics')]
                  ELSE \* line 202
                       /\ view' = [shown EXCEPT !.current = <<current_doc>>]
                       /\ search_rendered' = FALSE
                       /\ metric_search' = <<>>
                       /\ metrics' = EmptyMetrics
                       /\ filtered_metrics' = EmptyMetrics

SearchChoices == {<<>>, <<"r", "e">>, <<"E">>, <<"x">>}

Range(f) == {f[i] : i \in DOMAIN f}

\* the first run of a session
FirstRun == pc = "start" /\ Pass("load", 0)

\* "<- Previous" clicked
ClickPrevious == pc = "ran" /\ view.controls /\ Pass("previous", 0)

\* "Next ->" clicked
ClickNext == pc = "ran" /\ view.controls /\ Pass("next", 0)

\* a new value entered in "Go to #"; the browser keeps it in [1, max_value]
GoTo ==
    /\ pc = "ran"
    /\ number_widget.rendered
    /\ \E k \in 1..number_widget.max_value :
          k # number_widget.state /\ Pass("jump", k)

\* a new text entered in "Search metrics"
SearchMetrics ==
    /\ pc = "ran"
    /\ search_rendered
    /\ \E q \in SearchChoices : q # metric_search /\ Pass("search", q)

\* another option chosen in "Select Company"
SelectCompany ==
    /\ pc = "ran"
    /\ \E c \in {AllCompanies} \cup Range(companies) :
          c # selected_company /\ Pass("company", c)

Init ==
    /\ file_exists \in BOOLEAN
    /\ file_lines \in {FileOf(n) : n \in 0..MaxDocs}
    /\ company_lines = CompanyFile
    /\ collection = Stored(MaxDocs + 1)
    /\ object_ids = <<>>
    /\ log_warnings = <<>>
    /\ log_errors = 0
    /\ companies = <<>>
    /\ documents = <<>>
    /\ doc_index_set = FALSE
    /\ doc_index = 0
    /\ selected_company = AllCompanies
    /\ number_widget = NoWidget
    /\ search_rendered = FALSE
    /\ metric_search = <<>>
    /\ view = NoView
    /\ metrics = EmptyMetrics
    /\ filtered_metrics = EmptyMetrics
    /\ trace = NoTrace
    /\ pc = "start"

Next ==
    \/ FirstRun
    \/ ClickPrevious
    \/ ClickNext
    \/ GoTo
    \/ SearchMetrics
    \/ SelectCompany

Spec == Init /\ [][Next]_vars

----------------------------------------------------------------------------
(* The Identifier Loader on its own: any file of up to MaxLines lines *)

LineChoices ==
    {BlankLine, SpaceLine, NotAnId, ShortId, NonHexId, LineOf(1), LineOf(2),
     OidOf(1)}

RECURSIVE SeqsUpTo(_, _)
SeqsUpTo(S, n) ==
    IF n = 0 THEN {<<>>}
    ELSE LET shorter == SeqsUpTo(S, n - 1)
         IN shorter \cup {Append(q, x) : q \in shorter, x \in S}

Idle ==
    /\ company_lines = <<>>
    /\ log_warnings = <<>>
    /\ log_errors = 0
    /\ companies = <<>>
    /\ doc_index_set = FALSE
    /\ doc_index = 0
    /\ number_widget = NoWidget
    /\ search_rendered = FALSE
    /\ view = NoView
    /\ trace = NoTrace
    /\ pc = "input"

InitLoad ==
    /\ file_exists \in BOOLEAN
    /\ file_lines \in SeqsUpTo(LineChoices, MaxLines)
    /\ collection = <<>>
    /\ object_ids = <<>>
    /\ documents = <<>>
    /\ selected_company = AllCompanies
    /\ metric_search = <<>>
    /\ metrics = EmptyMetrics
    /\ filtered_metrics = EmptyMetrics
    /\ Idle

\* line 61: object_ids = load_object_ids()
LoadObjectIds ==
    /\ pc = "input"
    /\ \E loaded \in {load_object_ids} :
          /\ object_ids' = loaded.object_ids
          /\ log_warnings' = loaded.warnings
          /\ log_errors' = loaded.errors
    /\ pc' = "loaded"
    /\ UNCHANGED <<file_exists, file_lines, company_lines, collection, companies,
                   documents, doc_index_set, doc_index, selected_company,
                   number_widget, search_rendered, metric_search, view, metrics,
                   filtered_metrics, trace>>

SpecLoad == InitLoad /\ [][LoadObjectIds]_vars

----------------------------------------------------------------------------
(* The Document Query Service on its own: any collection of up to MaxStored *)
(* documents with distinct _id                                              *)

IdPool == {OidOf(n) : n \in 1..MaxStored}

DocChoices ==
    {[id |-> i, has_company |-> c # <<>>, company_name |-> c,
      has_metrics |-> m # 0,
      Key_Metrics |-> IF m = 2 THEN [k \in {EPS} |-> "v"] ELSE EmptyMetrics] :
        i \in IdPool, c \in {<<>>, Acme, acme}, m \in 0..2}

DistinctIds(coll) ==
    \A i, j \in 1..Len(coll) : coll[i].id = coll[j].id => i = j

IdListChoices == SeqsUpTo({OidOf(1), OidOf(2)}, 2)

InitQuery ==
    /\ file_exists = TRUE
    /\ file_lines = <<>>
    /\ collection \in {c \in SeqsUpTo(DocChoices, MaxStored) : DistinctIds(c)}
    /\ object_ids \in IdListChoices
    /\ documents = <<>>
    /\ selected_company \in {AllCompanies, Acme, acme}
    /\ metric_search = <<>>
    /\ metrics = EmptyMetrics
    /\ filtered_metrics = EmptyMetrics
    /\ Idle

\* lines 68-78
RunQuery ==
    /\ pc = "input"
    /\ documents' = find(collection, query(object_ids, selected_company))
    /\ pc' = "queried"
    /\ UNCHANGED <<file_exists, file_lines, company_lines, collection, object_ids,
                   log_warnings, log_errors, companies, doc_index_set, doc_index,
                   selected_company, number_widget, search_rendered,
                   metric_search, view, metrics, filtered_metrics, trace>>

SpecQuery == InitQuery /\ [][RunQuery]_vars

----------------------------------------------------------------------------
(* The Metrics Filter on its own: any mapping of up to two names of up to   *)
(* MaxKeyLen characters, any query of up to MaxKeyLen characters            *)

FilterStrings == SeqsUpTo({"e", "E", "p"}, MaxKeyLen)

MetricsChoices ==
    UNION {[K -> {"1", "2"}] : K \in {{}} \cup {{a, b} : a, b \in FilterStrings}}

InitFilter ==
    /\ file_exists = TRUE
    /\ file_lines = <<>>
    /\ collection = <<>>
    /\ object_ids = <<>>
    /\ documents = <<>>
    /\ selected_company = AllCompanies
    /\ metric_search \in FilterStrings
    /\ metrics \in MetricsChoices
    /\ filtered_metrics = EmptyMetrics
    /\ Idle

\* lines 173-177
FilterMetrics ==
    /\ pc = "input"
    /\ filtered_metrics' = filter_metrics(metrics, metric_search)
    /\ pc' = "filtered"
    /\ UNCHANGED <<file_exists, file_lines, company_lines, collection, object_ids,
                   log_warnings, log_errors, companies, documents, doc_index_set,
                   doc_index, selected_company, number_widget, search_rendered,
                   metric_search, view, metrics, trace>>

SpecFilter == InitFilter /\ [][FilterMetrics]_vars

----------------------------------------------------------------------------
(* Properties *)

N == Len(documents)

\* C1: in every pass with N > 0 the script ends without an exception and the
\* cursor used to select the current document satisfies 0 <= docIndex < N,
\* whatever sequence of previous / next / jump / search / company
\* interactions led to the pass.
C1_CursorInBounds ==
    (pc = "ran" /\ N > 0) =>
        /\ view.error = "none"
        /\ trace.selected \in 0..(N - 1)
        /\ doc_index = trace.selected
        /\ view.current = <<documents[trace.selected + 1]>>

\* "Next" clicked on the last document of a result set of several documents
C1_Witness ==
    /\ pc = "ran" /\ N > 1
    /\ trace.event = "next"
    /\ trace.after_reset = N - 1
    /\ trace.selected = N - 1

\* C2: in a pass with N > 0, a held docIndex >= N is reset to 0 and a held
\* docIndex < N is left as it is, and the navigation controls and the
\* selection of the current document start from the value after the reset.
C2_ResetWhenOutOfBounds ==
    (pc = "ran" /\ N > 0) =>
        /\ trace.after_reset = (IF trace.held >= N THEN 0 ELSE trace.held)
        /\ trace.event \notin {"previous", "next", "jump"} =>
              trace.selected = trace.after_reset

\* a company change that shrinks the result set below the held index
C2_Witness ==
    /\ pc = "ran" /\ N > 0
    /\ trace.event = "company"
    /\ trace.held >= N
    /\ doc_index = 0

\* C3 as stated: a pass with an empty ResultSet sets docIndex to 0.
C3_EmptyResultResetsCursor ==
    (pc = "ran" /\ N = 0) => doc_index = 0

\* C3 amended: a pass with an empty ResultSet executes no reset and leaves
\* docIndex as it was; the next pass with a non-empty ResultSet of size N'
\* starts from the held index when it is < N' and from 0 otherwise.
C3_EmptyResultKeepsCursor ==
    [][/\ (pc = "ran" /\ documents' = <<>>) =>
              (doc_index' = doc_index /\ doc_index_set' = doc_index_set)
       /\ (pc = "ran" /\ documents = <<>> /\ documents' # <<>>) =>
              trace'.after_reset =
                  (IF ~doc_index_set \/ doc_index >= Len(documents')
                   THEN 0 ELSE doc_index)]_vars

\* an empty ResultSet reached with a non-zero cursor
C3_Witness ==
    pc = "ran" /\ N = 0 /\ doc_index_set /\ doc_index > 0

C5_PositionIsOfRenderedDocument ==
    (pc = "ran" /\ view.current # <<>>) =>
        (view.position = trace.selected + 1 /\ view.of = N)

\* C9: a pass with an empty ResultSet shows the warning and no document,
\* raises nothing, offers none of previous / next / jump, and still accepts
\* a company change.
C9_EmptyResult ==
    (pc = "ran" /\ N = 0) =>
        /\ view.warning
        /\ view.current = <<>>
        /\ view.error = "none"
        /\ ~view.controls /\ ~number_widget.rendered
        /\ ~ENABLED ClickPrevious
        /\ ~ENABLED ClickNext
        /\ ~ENABLED GoTo
        /\ ENABLED SelectCompany

\* an empty ResultSet after documents had been browsed
C9_Witness ==
    pc = "ran" /\ N = 0 /\ doc_index_set /\ trace.event = "company"

\* C10: a pass triggered by the search box, or by a company change whose
\* ResultSet still contains the held index, leaves docIndex as it was; the
\* cursor differs from the held one only after previous, next, jump or the
\* out-of-bounds reset.
C10_CursorFrame ==
    pc = "ran" =>
        /\ trace.event = "search" => doc_index = trace.held
        /\ (trace.event = "company" /\ N > 0 /\ trace.held < N) =>
              doc_index = trace.held
        /\ (doc_index_set /\ doc_index # trace.held) =>
              \/ trace.event \in {"previous", "next", "jump"}
              \/ (N > 0 /\ trace.held >= N)

\* a search typed while a document other than the first is shown
C10_Witness ==
    pc = "ran" /\ trace.event = "search" /\ trace.held > 0 /\ doc_index = trace.held

----------------------------------------------------------------------------
(* Properties of the query, the filter and the loader *)

InIds(doc) == \E i \in 1..Len(object_ids) : object_ids[i] = doc.id

CompanyOk(doc) ==
    \/ selected_company = AllCompanies
    \/ (doc.has_company /\ doc.company_name = selected_company)

Returned(doc) == \E j \in 1..Len(documents) : documents[j] = doc

\* C6 as stated: a stored document is in the ResultSet iff its identifier is
\* in ids, it has a non-empty metrics field and its company is the selected
\* one (any company for "All Companies"); empty ids give an empty ResultSet.
C6_MatchesNonEmptyMetrics ==
    pc = "queried" =>
        /\ \A i \in 1..Len(collection) :
              Returned(collection[i]) <=>
                  /\ InIds(collection[i])
                  /\ collection[i].has_metrics
                  /\ DOMAIN collection[i].Key_Metrics # {}
                  /\ CompanyOk(collection[i])
        /\ object_ids = <<>> => documents = <<>>

\* C6 amended: a stored document is in the ResultSet iff its identifier is in
\* ids, it has a metrics field (empty or not) and its company is the selected
\* one (any company for "All Companies"); nothing else is in the ResultSet
\* and empty ids give an empty ResultSet.
C6_MatchesExistingMetrics ==
    pc = "queried" =>
        /\ \A i \in 1..Len(collection) :
              Returned(collection[i]) <=>
                  /\ InIds(collection[i])
                  /\ collection[i].has_metrics
                  /\ CompanyOk(collection[i])
        /\ \A j \in 1..Len(documents) :
              \E i \in 1..Len(collection) : collection[i] = documents[j]
        /\ object_ids = <<>> => documents = <<>>

\* a company is selected, a document with an empty metrics field is returned
\* and another stored document is not
C6_Witness ==
    /\ pc = "queried"
    /\ selected_company # AllCompanies
    /\ \E j \in 1..Len(documents) : DOMAIN documents[j].Key_Metrics = {}
    /\ Len(documents) < Len(collection)

SameLetter(a, b) ==
    \/ a = b
    \/ \E i \in 1..Len(UpperCase) : {a, b} = {UpperCase[i], LowerCase[i]}

OccursIgnoringCase(q, k) ==
    \E off \in 0..(Len(k) - Len(q)) :
        \A j \in 1..Len(q) : SameLetter(q[j], k[off + j])

\* C7: with an empty query the filter returns the mapping itself; otherwise
\* it returns exactly the entries whose name contains the query as a
\* case-insensitive substring, each with the value it had.
C7_FilterMetrics ==
    pc = "filtered" =>
        /\ metric_search = <<>> => filtered_metrics = metrics
        /\ metric_search # <<>> =>
              DOMAIN filtered_metrics =
                  {k \in DOMAIN metrics : OccursIgnoringCase(metric_search, k)}
        /\ \A k \in DOMAIN filtered_metrics :
              k \in DOMAIN metrics /\ filtered_metrics[k] = metrics[k]

\* a query that keeps a name only because case is ignored and drops another
C7_Witness ==
    /\ pc = "filtered"
    /\ metric_search # <<>>
    /\ \E k \in DOMAIN filtered_metrics : ~contains(metric_search, k)
    /\ DOMAIN filtered_metrics # DOMAIN metrics

NonBlank(s) == s # <<>>
Valid(s) == ObjectId(s).ok

\* C8: for an existing file the loader returns the identifiers of the valid
\* trimmed non-blank lines, in file order with duplicates kept, and logs one
\* warning per invalid trimmed non-blank line and none for blank lines; for
\* a missing file it returns the empty sequence.
C8_LoadObjectIds ==
    pc = "loaded" =>
        LET trimmed == [i \in 1..Len(file_lines) |-> strip(file_lines[i])]
            nonblank == SelectSeq(trimmed, NonBlank)
            valid == SelectSeq(nonblank, Valid)
        IN IF file_exists
           THEN /\ Len(object_ids) = Len(valid)
                /\ \A i \in 1..Len(valid) : object_ids[i] = lower(valid[i])
                /\ Len(log_warnings) = Len(nonblank) - Len(valid)
                /\ log_errors = 0
           ELSE object_ids = <<>> /\ log_warnings = <<>> /\ log_errors = 1

\* a file with a blank line, an invalid line and a valid line
C8_Witness ==
    /\ pc = "loaded"
    /\ file_exists
    /\ Len(file_lines) = 3
    /\ Len(object_ids) = 1
    /\ Len(log_warnings) = 1

====
